---- MODULE Spec2Model ----
(***************************************************************************)
(* Model of the NutraFlex payment-webhook backend (src/routes/webhook.py,  *)
(* src/config.py).  Python values are modelled by strings: "ABSENT" is a   *)
(* key that is missing from a JSON object, "None" is Python's None (JSON   *)
(* null), "" is the empty string.  A Python call is modelled by an         *)
(* operator that yields [exc, val]: exc = "none" when the call returned    *)
(* val, and the name of the exception class when it raised.                *)
(***************************************************************************)
EXTENDS Integers, Sequences, FiniteSets, TLC

VARIABLES env, pc, req, resp, trace, vcall, directory, faults, xcall, fb

vars == <<env, pc, req, resp, trace, vcall, directory, faults, xcall, fb>>

(***************************************************************************)
(* Bounds of the model.                                                    *)
(***************************************************************************)
\* largest number of keys a modelled webhook payload populates
MaxFields == 1

(***************************************************************************)
(* Python value helpers.                                                   *)
(***************************************************************************)
\* truth value of a Python object as used by `or`, `and`, `if`, `not`
Truthy(v) == v \notin {"ABSENT", "None", ""}

\* a call that returned v
Ret(v) == [exc |-> "none", val |-> v]

\* a call that raised exception class e
Raise(e) == [exc |-> e, val |-> "None"]

\* a or b, where a and b are calls that may raise (b is not run when a is truthy)
OrElse(a, b) == IF a.exc # "none" THEN a ELSE IF Truthy(a.val) THEN a ELSE b

\* c1 or c2 or ... or cn
RECURSIVE OrChain(_)
OrChain(cs) == IF Len(cs) = 1 THEN cs[1] ELSE OrElse(cs[1], OrChain(Tail(cs)))

(***************************************************************************)
(* JSON payloads.  A payload is a function from the key paths it holds to  *)
(* their values; Val yields "ABSENT" for a key it does not hold.  A        *)
(* nested object is flattened: "customer" holds the kind of the value at   *)
(* that key ("ABSENT", "None", "STR" for a non-object, "OBJ" for an        *)
(* object) and "customer.email" the member of the object.  "metadata" and  *)
(* "user_data" hold "JSON" when the value is a string that encodes an      *)
(* object, whose members are "metadata.email" and so on; "{bad" is a       *)
(* string that is no JSON text, "[1]" a string that encodes a list, "DICT" *)
(* a value that is an object instead of a string.                          *)
(***************************************************************************)
ObjectParents == {"customer", "custom_fields"}

JsonParents == {"metadata", "user_data"}

SubKeys == {"customer.email", "customer.name", "customer.registration_id",
            "custom_fields.registration_id",
            "metadata.email", "metadata.name", "metadata.registration_id",
            "user_data.email", "user_data.name", "user_data.registration_id"}

PlainKeys == {"email", "buyer_email", "customer_email", "custom_field_2",
              "name", "buyer_name", "customer_name", "custom_field_3",
              "registration_id", "custom_field_1", "external_id", "reference",
              "order_id", "transaction_id", "id", "payment_id",
              "amount", "value", "total", "price",
              "product_id", "product", "item_id",
              "reason", "decline_reason", "refund_amount"}

AllKeys == ObjectParents \cup JsonParents \cup SubKeys \cup PlainKeys

\* the object at which a flattened member lives
ParentOf(k) ==
    CASE k \in {"customer.email", "customer.name", "customer.registration_id"} -> "customer"
      [] k = "custom_fields.registration_id" -> "custom_fields"
      [] k \in {"metadata.email", "metadata.name", "metadata.registration_id"} -> "metadata"
      [] k \in {"user_data.email", "user_data.name", "user_data.registration_id"} -> "user_data"
      [] OTHER -> "ABSENT"

\* the JSON object {}
EmptyPayload == [k \in {} |-> "ABSENT"]

\* the value the payload (or dict) d holds at key k
Val(d, k) == IF k \in DOMAIN d THEN d[k] ELSE "ABSENT"

\* the payload p with key k set to v; setting a member makes its parent an
\* object, setting a parent to something else drops its members
SetKey(p, k, v) ==
    LET parent == IF ParentOf(k) \in JsonParents THEN "JSON" ELSE "OBJ"
        keep == IF k \in ObjectParents \cup JsonParents
                THEN {j \in DOMAIN p : ParentOf(j) # k}
                ELSE DOMAIN p
        keys == keep \cup {k} \cup (IF k \in SubKeys THEN {ParentOf(k)} ELSE {})
    IN
    [j \in keys |-> IF j = k THEN v
                    ELSE IF k \in SubKeys /\ j = ParentOf(k) THEN parent
                    ELSE p[j]]

\* dict.get(key): None when the key is missing
Get(d, k) == IF Val(d, k) = "ABSENT" THEN "None" ELSE d[k]

\* data.get(parent, {}).get(member)
GetNested(d, parent, member) ==
    CASE Val(d, parent) = "ABSENT" -> Ret("None")
      [] Val(d, parent) = "OBJ" -> Ret(Get(d, member))
      [] OTHER -> Raise("AttributeError")

(***************************************************************************)
(* Field extractors (webhook.py 175-247).  `data` is [dict, f]: dict tells *)
(* whether the value handed to the extractor is a JSON object, f holds its *)
(* keys.  Any .get on a value that is no object raises AttributeError.     *)
(***************************************************************************)
\* json.loads(json_string).get(key) under try/except (JSONDecodeError, TypeError)
extract_from_json(d, parent, key) ==
    LET json_string == Get(d, parent) IN
    IF ~Truthy(json_string) THEN Ret("None")
    ELSE CASE json_string = "JSON" -> Ret(Get(d, parent \o "." \o key))
           [] json_string = "{bad" -> Ret("None")          \* JSONDecodeError, caught
           [] json_string = "DICT" -> Ret("None")          \* TypeError, caught
           [] OTHER -> Raise("AttributeError")             \* "[1]": a list has no .get

\* data.get(parent) and extract_from_json(data.get(parent), key)
AndExtract(d, parent, key) ==
    IF ~Truthy(Get(d, parent)) THEN Ret(Get(d, parent))
    ELSE extract_from_json(d, parent, key)

extract_customer_email(data) ==
    IF ~data.dict THEN Raise("AttributeError")
    ELSE OrChain(<<GetNested(data.f, "customer", "customer.email"),
                   Ret(Get(data.f, "email")),
                   Ret(Get(data.f, "buyer_email")),
                   Ret(Get(data.f, "customer_email")),
                   Ret(Get(data.f, "custom_field_2")),
                   AndExtract(data.f, "metadata", "email"),
                   AndExtract(data.f, "user_data", "email")>>)

extract_customer_name(data) ==
    IF ~data.dict THEN Raise("AttributeError")
    ELSE OrChain(<<GetNested(data.f, "customer", "customer.name"),
                   Ret(Get(data.f, "name")),
                   Ret(Get(data.f, "buyer_name")),
                   Ret(Get(data.f, "customer_name")),
                   Ret(Get(data.f, "custom_field_3")),
                   AndExtract(data.f, "metadata", "name"),
                   AndExtract(data.f, "user_data", "name")>>)

extract_registration_id(data) ==
    IF ~data.dict THEN Raise("AttributeError")
    ELSE OrChain(<<Ret(Get(data.f, "registration_id")),
                   Ret(Get(data.f, "custom_field_1")),
                   Ret(Get(data.f, "external_id")),
                   Ret(Get(data.f, "reference")),
                   Ret(Get(data.f, "order_id")),
                   GetNested(data.f, "custom_fields", "custom_fields.registration_id"),
                   AndExtract(data.f, "metadata", "registration_id"),
                   AndExtract(data.f, "user_data", "registration_id"),
                   GetNested(data.f, "customer", "customer.registration_id")>>)

extract_transaction_id(data) ==
    IF ~data.dict THEN Raise("AttributeError")
    ELSE OrChain(<<Ret(Get(data.f, "transaction_id")),
                   Ret(Get(data.f, "id")),
                   Ret(Get(data.f, "payment_id")),
                   Ret(Get(data.f, "order_id"))>>)

extract_amount(data) ==
    IF ~data.dict THEN Raise("AttributeError")
    ELSE OrChain(<<Ret(Get(data.f, "amount")),
                   Ret(Get(data.f, "value")),
                   Ret(Get(data.f, "total")),
                   Ret(Get(data.f, "price"))>>)

extract_product_id(data) ==
    IF ~data.dict THEN Raise("AttributeError")
    ELSE OrChain(<<Ret(Get(data.f, "product_id")),
                   Ret(Get(data.f, "product")),
                   Ret(Get(data.f, "item_id"))>>)

(***************************************************************************)
(* Configuration (webhook.py 16).  env is the value of the environment     *)
(* variable CAKTO_WEBHOOK_SECRET when the module is imported, "UNSET" when *)
(* the variable does not exist.                                            *)
(***************************************************************************)
DEFAULT_SECRET == "nutraflex_webhook_secret_2025"

\* os.environ.get('CAKTO_WEBHOOK_SECRET', 'nutraflex_webhook_secret_2025')
WEBHOOK_SECRET == IF env = "UNSET" THEN DEFAULT_SECRET ELSE env

(***************************************************************************)
(* Request bodies and signatures.  A body is [doc, ws]: doc is what the    *)
(* bytes hold, ws tells which of two trailing white-space bytes ends them, *)
(* so that two bodies with the same doc and another ws differ in one byte  *)
(* and parse alike.  A header value is [prefix, ascii, digest]; HMAC-SHA256*)
(* is modelled without collisions: the digest names its key and message.   *)
(***************************************************************************)
NoDoc == [kind |-> "none", event |-> "ABSENT", type |-> "ABSENT", wrap |-> "none",
          f |-> EmptyPayload]

NoPayload == [doc |-> NoDoc, ws |-> 0]

NoDigest == [hex |-> "", key |-> "", msg |-> NoPayload]

\* the header value '' (also what request.headers.get yields for a missing header)
EmptySignature == [prefix |-> "", ascii |-> TRUE, digest |-> NoDigest]

\* hmac.new(key, payload, hashlib.sha256).hexdigest()
hexdigest(key, payload) == [hex |-> "lower", key |-> key, msg |-> payload]

\* variant of compare_digest: only the "sha256=" prefix of the two is compared
compare_digest_prefix(a, b) ==
    IF ~a.ascii \/ ~b.ascii THEN Raise("TypeError")
    ELSE Ret(IF a.prefix = b.prefix THEN "True" ELSE "False")

\* hmac.compare_digest on two str: TypeError unless both are ASCII
compare_digest(a, b) ==
    IF ~a.ascii \/ ~b.ascii THEN Raise("TypeError")
    ELSE Ret(IF a = b THEN "True" ELSE "False")

\* variant of ExpectedSignature: keyed with the built-in default, not the configured secret
ExpectedSignature_default_key(payload) ==
    [prefix |-> "sha256=", ascii |-> TRUE, digest |-> hexdigest(DEFAULT_SECRET, payload)]

\* f"sha256={expected_signature}" for the configured secret
ExpectedSignature(payload) ==
    [prefix |-> "sha256=", ascii |-> TRUE, digest |-> hexdigest(WEBHOOK_SECRET, payload)]

\* variant of validate_webhook_signature: no except clause around the comparison
validate_webhook_signature_uncaught(payload, signature) ==
    IF signature = EmptySignature
    THEN [exc |-> "none", val |-> "False", tr |-> <<>>]
    ELSE LET r == compare_digest(ExpectedSignature(payload), signature) IN
         [exc |-> r.exc, val |-> r.val, tr |-> <<>>]

\* variant of validate_webhook_signature: an empty header is let through
validate_webhook_signature_open(payload, signature) ==
    IF signature = EmptySignature
    THEN [exc |-> "none", val |-> "True", tr |-> <<>>]
    ELSE LET r == compare_digest(ExpectedSignature(payload), signature) IN
         IF r.exc # "none"
         THEN [exc |-> "none", val |-> "False", tr |-> <<"log.error">>]
         ELSE [exc |-> "none", val |-> r.val, tr |-> <<>>]

\* webhook.py 91-110; tr lists the log entries written
validate_webhook_signature(payload, signature) ==
    IF signature = EmptySignature
    THEN [exc |-> "none", val |-> "False", tr |-> <<>>]
    ELSE LET r == compare_digest(ExpectedSignature(payload), signature) IN
         IF r.exc # "none"
         THEN [exc |-> "none", val |-> "False", tr |-> <<"log.error">>]
         ELSE [exc |-> "none", val |-> r.val, tr |-> <<>>]

(***************************************************************************)
(* Result dictionaries.  A Python dict handed to jsonify is the record of   *)
(* its members; True and False are "True" and "False".  A handler yields   *)
(* [result, tr]: tr lists, in order, the functions entered and the log     *)
(* entries written.                                                        *)
(***************************************************************************)
\* the dict with the members of the record r
Dict(r) == r

\* the dict r after r[k] = v
DictSet(r, k, v) == [j \in DOMAIN r \cup {k} |-> IF j = k THEN v ELSE r[j]]

(***************************************************************************)
(* The directory service (Firebase Auth and Firestore) as the handlers see *)
(* it: directory is [pending, identities, accounts], the documents of       *)
(* pending_registrations, the Auth users and the documents of users.  The  *)
(* four wrappers below are where the handlers would reach it; each is a    *)
(* try block whose body is the simulated implementation (the real one sits *)
(* in a string literal behind the return) and whose except clause returns  *)
(* a failure result.  faults is the set of wrappers whose try body raises  *)
(* while the present request is handled (a logging filter that raises,     *)
(* MemoryError); FaultText is str(e) of that exception.  A wrapper yields  *)
(* [result, tr, dir]: dir is the directory it leaves behind.               *)
(***************************************************************************)
FaultText == "E"

\* webhook.py 298-311 and 443-448: the simulated implementation returns before the real one
create_account_from_pending_registration_by_id(registration_id, customer_email, customer_name, transaction_id, amount) ==
    IF "create_account_from_pending_registration_by_id" \in faults
    THEN [result |-> Dict([success |-> "False",
                           error |-> "Erro ao criar conta por registration_id: " \o FaultText]),
          tr |-> <<"create_account_from_pending_registration_by_id", "log.error">>,
          dir |-> directory]
    ELSE [result |-> Dict([success |-> "True",
                           message |-> "Conta criada para " \o customer_email
                                       \o " usando registration_id " \o registration_id]),
          tr |-> <<"create_account_from_pending_registration_by_id", "log.info", "log.info">>,
          dir |-> directory]

\* webhook.py 450-463 and 511-516: simulated likewise
create_account_from_pending_registration_by_email(customer_email, customer_name, transaction_id, amount) ==
    IF "create_account_from_pending_registration_by_email" \in faults
    THEN [result |-> Dict([success |-> "False",
                           error |-> "Erro ao criar conta por email: " \o FaultText]),
          tr |-> <<"create_account_from_pending_registration_by_email", "log.error">>,
          dir |-> directory]
    ELSE [result |-> Dict([success |-> "True",
                           message |-> "Conta criada para " \o customer_email
                                       \o " usando email como identificacao"]),
          tr |-> <<"create_account_from_pending_registration_by_email", "log.info", "log.info">>,
          dir |-> directory]

\* webhook.py 1010-1023 and 1130-1135 (the later of the two definitions of this name)
create_basic_account(customer_email, customer_name, transaction_id, amount) ==
    IF "create_basic_account" \in faults
    THEN [result |-> Dict([success |-> "False",
                           error |-> "Erro ao criar conta basica: " \o FaultText]),
          tr |-> <<"create_basic_account", "log.error">>,
          dir |-> directory]
    ELSE [result |-> Dict([success |-> "True",
                           message |-> "Conta basica criada para " \o customer_email]),
          tr |-> <<"create_basic_account", "log.info", "log.info">>,
          dir |-> directory]

\* webhook.py 816-840 and 935-940: simulated, succeeds unless the try body raises
update_user_access_firebase(customer_email, customer_name, transaction_id, status, amount) ==
    IF "update_user_access_firebase" \in faults
    THEN [result |-> Dict([success |-> "False",
                           error |-> "Erro na integracao com Firebase: " \o FaultText]),
          tr |-> <<"update_user_access_firebase", "log.error">>,
          dir |-> directory]
    ELSE [result |-> Dict([success |-> "True",
                           message |-> "Usuario " \o customer_email
                                       \o " atualizado para status " \o status]),
          tr |-> <<"update_user_access_firebase", "log.info", "log.info", "log.info",
                   "log.info", "log.info", "log.info", "log.info">>,
          dir |-> directory]

\* variant of create_account_with_identification_strategy: the lookup by email
\* is the primary strategy, the registration id is tried after it
create_account_with_identification_strategy_email_first(customer_email, registration_id, customer_name, transaction_id, amount) ==
    LET enter == <<"create_account_with_identification_strategy">>
        byId == create_account_from_pending_registration_by_id(
                    registration_id, customer_email, customer_name, transaction_id, amount)
        byEmail == create_account_from_pending_registration_by_email(
                       customer_email, customer_name, transaction_id, amount)
    IN
    IF byEmail.result["success"] = "True"
    THEN [result |-> DictSet(byEmail.result, "identification_method", "email"),
          tr |-> enter \o <<"log.info">> \o byEmail.tr,
          dir |-> byEmail.dir]
    ELSE IF Truthy(registration_id) /\ byId.result["success"] = "True"
    THEN [result |-> DictSet(byId.result, "identification_method", "registration_id"),
          tr |-> enter \o <<"log.info">> \o byEmail.tr \o <<"log.warning", "log.info">> \o byId.tr,
          dir |-> byId.dir]
    ELSE [result |-> Dict([success |-> "False",
                           error |-> "Nao foi possivel criar conta com nenhuma estrategia de identificacao"]),
          tr |-> enter \o <<"log.info">> \o byEmail.tr \o <<"log.warning">>,
          dir |-> directory]

\* variant of create_account_with_identification_strategy: when the last
\* strategy fails its result is returned as it is
create_account_with_identification_strategy_last_error(customer_email, registration_id, customer_name, transaction_id, amount) ==
    LET enter == <<"create_account_with_identification_strategy">>
        byId == create_account_from_pending_registration_by_id(
                    registration_id, customer_email, customer_name, transaction_id, amount)
        byEmail == create_account_from_pending_registration_by_email(
                       customer_email, customer_name, transaction_id, amount)
        basic == create_basic_account(customer_email, customer_name, transaction_id, amount)
        tried == IF Truthy(registration_id)
                 THEN enter \o <<"log.info">> \o byId.tr \o <<"log.warning">>
                 ELSE enter
    IN
    IF Truthy(registration_id) /\ byId.result["success"] = "True"
    THEN [result |-> DictSet(byId.result, "identification_method", "registration_id"),
          tr |-> enter \o <<"log.info">> \o byId.tr,
          dir |-> byId.dir]
    ELSE IF byEmail.result["success"] = "True"
    THEN [result |-> DictSet(byEmail.result, "identification_method", "email"),
          tr |-> tried \o <<"log.info">> \o byEmail.tr,
          dir |-> byEmail.dir]
    ELSE [result |-> IF basic.result["success"] = "True"
                     THEN DictSet(basic.result, "identification_method", "basic_account")
                     ELSE basic.result,
          tr |-> tried \o <<"log.info">> \o byEmail.tr \o <<"log.warning", "log.info">>
                 \o basic.tr,
          dir |-> basic.dir]

\* webhook.py 249-296
create_account_with_identification_strategy(customer_email, registration_id, customer_name, transaction_id, amount) ==
    LET enter == <<"create_account_with_identification_strategy">>
        byId == create_account_from_pending_registration_by_id(
                    registration_id, customer_email, customer_name, transaction_id, amount)
        byEmail == create_account_from_pending_registration_by_email(
                       customer_email, customer_name, transaction_id, amount)
        basic == create_basic_account(customer_email, customer_name, transaction_id, amount)
        tried == IF Truthy(registration_id)
                 THEN enter \o <<"log.info">> \o byId.tr \o <<"log.warning">>
                 ELSE enter
    IN
    IF Truthy(registration_id) /\ byId.result["success"] = "True"
    THEN [result |-> DictSet(byId.result, "identification_method", "registration_id"),
          tr |-> enter \o <<"log.info">> \o byId.tr,
          dir |-> byId.dir]
    ELSE IF byEmail.result["success"] = "True"
    THEN [result |-> DictSet(byEmail.result, "identification_method", "email"),
          tr |-> tried \o <<"log.info">> \o byEmail.tr,
          dir |-> byEmail.dir]
    ELSE IF basic.result["success"] = "True"
    THEN [result |-> DictSet(basic.result, "identification_method", "basic_account"),
          tr |-> tried \o <<"log.info">> \o byEmail.tr \o <<"log.warning", "log.info">>
                 \o basic.tr,
          dir |-> basic.dir]
    ELSE [result |-> Dict([success |-> "False",
                           error |-> "Nao foi possivel criar conta com nenhuma estrategia de identificacao"]),
          tr |-> tried \o <<"log.info">> \o byEmail.tr \o <<"log.warning", "log.info">>
                 \o basic.tr,
          dir |-> basic.dir]

\* the first of the calls cs that raised, or Ret("None") when none did
RECURSIVE FirstRaise(_)
FirstRaise(cs) ==
    IF Len(cs) = 0 THEN Ret("None")
    ELSE IF cs[1].exc # "none" THEN cs[1] ELSE FirstRaise(Tail(cs))

\* webhook.py 112-173
handle_payment_approved(data) ==
    LET customer_email == extract_customer_email(data)
        customer_name == extract_customer_name(data)
        transaction_id == extract_transaction_id(data)
        amount == extract_amount(data)
        product_id == extract_product_id(data)
        registration_id == extract_registration_id(data)
        raised == FirstRaise(<<customer_email, customer_name, transaction_id, amount,
                               product_id, registration_id>>)
        firebase_result == create_account_with_identification_strategy(
                               customer_email.val, registration_id.val, customer_name.val,
                               transaction_id.val, amount.val)
        enter == <<"handle_payment_approved">>
    IN
    IF raised.exc # "none"
    THEN [result |-> Dict([error |-> "Erro ao processar pagamento: " \o raised.exc]),
          tr |-> enter \o <<"log.error">>,
          dir |-> directory]
    ELSE IF ~Truthy(customer_email.val)
    THEN [result |-> Dict([error |-> "Email do cliente nao encontrado"]),
          tr |-> enter \o <<"log.error">>,
          dir |-> directory]
    ELSE IF firebase_result.result["success"] = "True"
    THEN [result |-> Dict([success |-> "True",
                           message |-> "Conta criada e acesso liberado com sucesso",
                           customer_email |-> customer_email.val,
                           registration_id |-> registration_id.val,
                           transaction_id |-> transaction_id.val,
                           status |-> "active",
                           identification_method |->
                               IF Val(firebase_result.result, "identification_method") = "ABSENT"
                               THEN "unknown"
                               ELSE firebase_result.result["identification_method"]]),
          tr |-> enter \o <<"log.info", "log.info", "log.info", "log.info", "log.info",
                            "log.info", "log.info">> \o firebase_result.tr \o <<"log.info">>,
          dir |-> firebase_result.dir]
    ELSE [result |-> Dict([error |-> "Erro ao criar conta",
                           details |-> Get(firebase_result.result, "error")]),
          tr |-> enter \o <<"log.info", "log.info", "log.info", "log.info", "log.info",
                            "log.info", "log.info">> \o firebase_result.tr \o <<"log.error">>,
          dir |-> firebase_result.dir]

\* the email read by the refused and refunded handlers (webhook.py 523-527, 569-573)
PaymentEmail(data) ==
    IF ~data.dict THEN Raise("AttributeError")
    ELSE OrChain(<<GetNested(data.f, "customer", "customer.email"),
                   Ret(Get(data.f, "email")),
                   Ret(Get(data.f, "buyer_email"))>>)

\* the transaction id read by the refused and refunded handlers (529-533, 575-579)
PaymentTransactionId(data) ==
    OrChain(<<Ret(Get(data.f, "transaction_id")),
              Ret(Get(data.f, "id")),
              Ret(Get(data.f, "payment_id"))>>)

\* webhook.py 518-562
handle_payment_refused(data) ==
    LET customer_email == PaymentEmail(data)
        transaction_id == PaymentTransactionId(data)
        reason == IF Val(data.f, "reason") # "ABSENT" THEN data.f["reason"]
                  ELSE IF Val(data.f, "decline_reason") # "ABSENT" THEN data.f["decline_reason"]
                  ELSE "Nao especificado"
        firebase_result == update_user_access_firebase(
                               customer_email.val, "None", transaction_id.val,
                               "payment_failed", "None")
        enter == <<"handle_payment_refused">>
    IN
    IF customer_email.exc # "none"
    THEN [result |-> Dict([error |-> "Erro ao processar pagamento recusado: "
                                     \o customer_email.exc]),
          tr |-> enter \o <<"log.error">>,
          dir |-> directory]
    ELSE [result |-> Dict([success |-> "True",
                           message |-> "Pagamento recusado registrado",
                           customer_email |-> customer_email.val,
                           transaction_id |-> transaction_id.val,
                           reason |-> reason]),
          tr |-> enter \o <<"log.info", "log.info", "log.info", "log.info">>
                 \o (IF Truthy(customer_email.val) THEN firebase_result.tr ELSE <<>>),
          dir |-> IF Truthy(customer_email.val) THEN firebase_result.dir ELSE directory]

\* webhook.py 564-617
handle_payment_refunded(data) ==
    LET customer_email == PaymentEmail(data)
        transaction_id == PaymentTransactionId(data)
        refund_amount == OrChain(<<Ret(Get(data.f, "refund_amount")),
                                   Ret(Get(data.f, "amount")),
                                   Ret(Get(data.f, "value"))>>)
        firebase_result == update_user_access_firebase(
                               customer_email.val, "None", transaction_id.val,
                               "refunded", refund_amount.val)
        enter == <<"handle_payment_refunded">>
    IN
    IF customer_email.exc # "none"
    THEN [result |-> Dict([error |-> "Erro ao processar reembolso: " \o customer_email.exc]),
          tr |-> enter \o <<"log.error">>,
          dir |-> directory]
    ELSE IF firebase_result.result["success"] = "True"
    THEN [result |-> Dict([success |-> "True",
                           message |-> "Acesso revogado devido ao reembolso",
                           customer_email |-> customer_email.val,
                           transaction_id |-> transaction_id.val]),
          tr |-> enter \o <<"log.info", "log.info", "log.info", "log.info">>
                 \o firebase_result.tr \o <<"log.info">>,
          dir |-> firebase_result.dir]
    ELSE [result |-> Dict([error |-> "Erro ao revogar acesso",
                           details |-> Get(firebase_result.result, "error")]),
          tr |-> enter \o <<"log.info", "log.info", "log.info", "log.info">>
                 \o firebase_result.tr,
          dir |-> firebase_result.dir]

(***************************************************************************)
(* POST /cakto (webhook.py 21-89).  A request body's doc is                *)
(* [kind, event, type, wrap, f]: kind "nonutf8" for bytes that are no      *)
(* UTF-8, "badjson" for text that is no JSON, "nonobject" for a JSON value *)
(* that is no object, "object" for an object with the top-level keys       *)
(* 'event' and 'type'; wrap tells where the payload f sits: "none" at the  *)
(* top level (no 'data' key), "data" under the 'data' key, "null" and      *)
(* "scalar" when 'data' holds null or a string.                            *)
(***************************************************************************)
ApprovedEvents == {"payment.approved", "payment_approved", "approved", "completed"}

RefusedEvents == {"payment.refused", "payment_refused", "refused", "failed"}

RefundedEvents == {"payment.refunded", "payment_refunded", "refunded"}

\* variant of EventType: a body without 'event' and 'type' has no event type
EventType_no_default(doc) ==
    IF doc.event # "ABSENT" THEN doc.event
    ELSE IF doc.type # "ABSENT" THEN doc.type
    ELSE "None"

\* webhook_data.get('event', webhook_data.get('type', 'payment.approved'))
EventType(doc) ==
    IF doc.event # "ABSENT" THEN doc.event
    ELSE IF doc.type # "ABSENT" THEN doc.type
    ELSE "payment.approved"

\* webhook_data.get('data', webhook_data)
DataOf(doc) ==
    IF doc.wrap \in {"none", "data"} THEN [dict |-> TRUE, f |-> doc.f]
    ELSE [dict |-> FALSE, f |-> EmptyPayload]

\* data.get('customer', {}).get('email') or data.get('email')   (webhook.py 78)
HasCustomerData(data) ==
    IF ~data.dict THEN Raise("AttributeError")
    ELSE OrChain(<<GetNested(data.f, "customer", "customer.email"),
                   Ret(Get(data.f, "email"))>>)

\* variant of SignatureChecked: an empty secret switches the check off as well
SignatureChecked_unless_empty == WEBHOOK_SECRET \notin {DEFAULT_SECRET, ""}

\* WEBHOOK_SECRET != 'nutraflex_webhook_secret_2025'   (webhook.py 48)
SignatureChecked == WEBHOOK_SECRET # DEFAULT_SECRET

\* variant of InternalError: the exception is raised again and leaves the handler
\* without a response
InternalError_reraise(e, tr) ==
    [status |-> 0,
     body |-> Dict([exception |-> e]),
     tr |-> tr \o <<"log.error">>,
     dir |-> directory]

\* the except clause at the handler boundary (webhook.py 87-89)
InternalError(e, tr) ==
    [status |-> 500,
     body |-> Dict([error |-> "Erro interno do servidor", details |-> e]),
     tr |-> tr \o <<"log.error">>,
     dir |-> directory]

\* variant of Processed: a result that holds an error is answered with status 500
Processed_error_status(r, tr) ==
    [status |-> IF Val(r.result, "error") = "ABSENT" THEN 200 ELSE 500,
     body |-> r.result, tr |-> tr \o r.tr \o <<"log.info">>, dir |-> r.dir]

\* return jsonify(result), 200 after the dispatch (webhook.py 84-85)
Processed(r, tr) ==
    [status |-> 200, body |-> r.result, tr |-> tr \o r.tr \o <<"log.info">>, dir |-> r.dir]

\* json.loads(payload.decode('utf-8')) with its except clause (webhook.py 54-58)
ParseBody(doc) ==
    CASE doc.kind = "nonutf8" -> Raise("UnicodeDecodeError")
      [] doc.kind = "badjson" -> Ret("JSONDecodeError")
      [] OTHER -> Ret("parsed")

\* variant of UnhandledEvent: an event that is not handled is refused with 400
UnhandledEvent_refused(event_type, tr) ==
    [status |-> 400,
     body |-> Dict([error |-> "Evento nao tratado", event |-> event_type]),
     tr |-> tr,
     dir |-> directory]

\* return jsonify({'message': 'Evento nao tratado', 'event': event_type}), 200   (webhook.py 82)
UnhandledEvent(event_type, tr) ==
    [status |-> 200,
     body |-> Dict([message |-> "Evento nao tratado", event |-> event_type]),
     tr |-> tr,
     dir |-> directory]

\* webhook.py 63-85: the dispatch on the event type, after the body was parsed
Dispatch(doc, tr) ==
    LET event_type == EventType(doc)
        data == DataOf(doc)
        has == HasCustomerData(data)
    IN
    IF doc.kind # "object" THEN InternalError("AttributeError", tr)
    ELSE IF event_type \in ApprovedEvents
    THEN Processed(handle_payment_approved(data), tr \o <<"log.info">>)
    ELSE IF event_type \in RefusedEvents
    THEN Processed(handle_payment_refused(data), tr \o <<"log.info">>)
    ELSE IF event_type \in RefundedEvents
    THEN Processed(handle_payment_refunded(data), tr \o <<"log.info">>)
    ELSE IF has.exc # "none"
    THEN InternalError(has.exc, tr \o <<"log.info", "log.info">>)
    ELSE IF Truthy(has.val)
    THEN Processed(handle_payment_approved(data), tr \o <<"log.info", "log.info", "log.info">>)
    ELSE UnhandledEvent(event_type, tr \o <<"log.info", "log.info">>)

\* webhook.py 21-89
handle_cakto_webhook(request) ==
    LET payload == request.body
        signature == request.sig
        start == <<"log.info", "get_data", "log.info", "log.info">>
        valid == validate_webhook_signature(payload, signature)
        checked == IF SignatureChecked
                   THEN start \o <<"validate_webhook_signature">> \o valid.tr
                   ELSE start
        parsed == ParseBody(payload.doc)
    IN
    IF SignatureChecked /\ valid.val # "True"
    THEN [status |-> 401,
          body |-> Dict([error |-> "Assinatura invalida"]),
          tr |-> checked \o <<"log.warning">>,
          dir |-> directory]
    ELSE IF parsed.exc # "none"
    THEN InternalError(parsed.exc, checked \o <<"json.loads">>)
    ELSE IF parsed.val = "JSONDecodeError"
    THEN [status |-> 400,
          body |-> Dict([error |-> "JSON invalido"]),
          tr |-> checked \o <<"json.loads", "log.error">>,
          dir |-> directory]
    ELSE Dispatch(payload.doc, checked \o <<"json.loads", "log.info">>)

(***************************************************************************)
(* POST /simulate-payment (webhook.py 976-1006).  The request body is the  *)
(* JSON object {email, name}; the handler builds an approved payment from  *)
(* it and hands it to handle_payment_approved.                             *)
(***************************************************************************)
\* data.get(key, default): the default only when the key is missing
GetDefault(d, k, default) == IF Val(d, k) = "ABSENT" THEN default ELSE d[k]

\* the payment_data dict of webhook.py 986-994
PaymentData(customer_email, customer_name) ==
    SetKey(SetKey(SetKey(SetKey(SetKey(EmptyPayload,
        "customer.email", customer_email),
        "customer.name", customer_name),
        "transaction_id", "TEST_now"),
        "amount", "97.0"),
        "product_id", "nutraflex_full_access")

\* variant of simulate_payment: the defaults also replace an empty or null value
simulate_payment_default_when_empty(request) ==
    LET data == request.body.doc
        customer_email == IF Truthy(Val(data.f, "email")) THEN data.f["email"]
                          ELSE "teste@nutraflex.com"
        customer_name == IF Truthy(Val(data.f, "name")) THEN data.f["name"]
                         ELSE "Usuario Teste"
        payment_data == PaymentData(customer_email, customer_name)
        result == handle_payment_approved([dict |-> TRUE, f |-> payment_data])
    IN
    IF data.kind # "object"
    THEN [status |-> 500,
          body |-> Dict([error |-> IF data.kind = "badjson" THEN "BadRequest"
                                   ELSE "AttributeError"]),
          tr |-> <<"simulate_payment", "get_json">>,
          dir |-> directory]
    ELSE [status |-> 200,
          body |-> Dict([message |-> "Pagamento simulado",
                         result |-> result.result,
                         test_data |-> payment_data]),
          tr |-> <<"simulate_payment", "get_json">> \o result.tr,
          dir |-> result.dir]

\* webhook.py 976-1006
simulate_payment(request) ==
    LET data == request.body.doc
        customer_email == GetDefault(data.f, "email", "teste@nutraflex.com")
        customer_name == GetDefault(data.f, "name", "Usuario Teste")
        payment_data == PaymentData(customer_email, customer_name)
        result == handle_payment_approved([dict |-> TRUE, f |-> payment_data])
    IN
    IF data.kind # "object"
    THEN [status |-> 500,
          body |-> Dict([error |-> IF data.kind = "badjson" THEN "BadRequest"
                                   ELSE "AttributeError"]),
          tr |-> <<"simulate_payment", "get_json">>,
          dir |-> directory]
    ELSE [status |-> 200,
          body |-> Dict([message |-> "Pagamento simulado",
                         result |-> result.result,
                         test_data |-> payment_data]),
          tr |-> <<"simulate_payment", "get_json">> \o result.tr,
          dir |-> result.dir]

\* the fields POST /test-extraction reports, in the order of extracted_data
ExtractedFields ==
    <<"customer_email", "customer_name", "registration_id", "transaction_id", "amount",
      "product_id">>

\* the six extractor calls on data, by field
Extractions(data) ==
    [customer_email |-> extract_customer_email(data),
     customer_name |-> extract_customer_name(data),
     registration_id |-> extract_registration_id(data),
     transaction_id |-> extract_transaction_id(data),
     amount |-> extract_amount(data),
     product_id |-> extract_product_id(data)]

\* POST /test-extraction (webhook.py 1138-1178): the six extractors on the body
test_webhook_extraction(request) ==
    LET data == request.body.doc
        calls == Extractions([dict |-> data.kind = "object", f |-> data.f])
        raised == FirstRaise([i \in 1..6 |-> calls[ExtractedFields[i]]])
        extracted_data == [k \in DOMAIN calls |-> calls[k].val]
        found == {k \in DOMAIN calls : extracted_data[k] # "None"}
    IN
    IF data.kind = "badjson"
    THEN [status |-> 500, body |-> Dict([error |-> "Erro ao testar extracao: BadRequest"]),
          tr |-> <<"test_webhook_extraction", "get_json", "log.error">>, dir |-> directory]
    ELSE IF data.kind = "object" /\ data.f = EmptyPayload
    THEN [status |-> 400, body |-> Dict([error |-> "Dados nao fornecidos"]),
          tr |-> <<"test_webhook_extraction", "get_json">>, dir |-> directory]
    ELSE IF raised.exc # "none"
    THEN [status |-> 500, body |-> Dict([error |-> "Erro ao testar extracao: " \o raised.exc]),
          tr |-> <<"test_webhook_extraction", "get_json", "log.error">>, dir |-> directory]
    ELSE [status |-> 200,
          body |-> Dict([success |-> "True",
                         extracted_data |-> extracted_data,
                         found_data |-> [k \in found |-> extracted_data[k]],
                         missing_data |-> DOMAIN calls \ found,
                         original_data |-> data.f,
                         identification_possible |->
                             "customer_email" \in found /\ Truthy(extracted_data["customer_email"]),
                         registration_id_found |->
                             "registration_id" \in found /\ Truthy(extracted_data["registration_id"])]),
          tr |-> <<"test_webhook_extraction", "get_json">>, dir |-> directory]

(***************************************************************************)
(* The requests the model sends.                                           *)
(***************************************************************************)
\* values of the environment variable CAKTO_WEBHOOK_SECRET
EnvValues == {"UNSET", DEFAULT_SECRET, "", "k1"}

\* values of the 'event' key
EventVals == ApprovedEvents \cup RefusedEvents \cup RefundedEvents
             \cup {"ABSENT", "None", "purchase_approved", "Payment.Approved", "REFUNDED",
                   "subscription.created"}

\* values of the 'type' key
TypeVals == {"ABSENT", "payment.refunded", "failed", "order.shipped"}

\* the ('event', 'type') pairs of the modelled bodies
EventTypePairs == (EventVals \X {"ABSENT"}) \cup ({"ABSENT", "None", "refused"} \X TypeVals)

\* the single key settings a modelled payload is built from
KeySettings ==
    ({"customer"} \X {"None", "STR", "OBJ"})
    \cup ({"customer.email", "email"} \X {"a@x.com", ""})
    \cup ({"buyer_email", "customer_email", "custom_field_2"} \X {"b@y.com"})
    \cup ({"metadata"} \X {"[1]", "{bad"})
    \cup ({"user_data"} \X {""})
    \cup ({"metadata.email", "user_data.email"} \X {"c@z.com"})
    \cup ({"registration_id"} \X {"R1"})
    \cup ({"custom_fields"} \X {"None"})
    \cup ({"transaction_id"} \X {"T1"})

\* the payloads that populate at most n keys
RECURSIVE PayloadsUpTo(_)
PayloadsUpTo(n) ==
    IF n = 0 THEN {EmptyPayload}
    ELSE LET smaller == PayloadsUpTo(n - 1) IN
         smaller \cup {SetKey(p, s[1], s[2]) : p \in smaller, s \in KeySettings}

Payloads == PayloadsUpTo(MaxFields)

Docs ==
    {[kind |-> k, event |-> "ABSENT", type |-> "ABSENT", wrap |-> "none", f |-> EmptyPayload] :
        k \in {"nonutf8", "badjson", "nonobject"}}
    \cup {[kind |-> "object", event |-> et[1], type |-> et[2], wrap |-> w, f |-> p] :
            et \in EventTypePairs, w \in {"none", "data"}, p \in Payloads}
    \cup {[kind |-> "object", event |-> et[1], type |-> et[2], wrap |-> w, f |-> EmptyPayload] :
            et \in EventTypePairs, w \in {"null", "scalar"}}

Bodies == {[doc |-> d, ws |-> w] : d \in Docs, w \in {0, 1}}

\* "sha256=" + hex(HMAC_SHA256(key, body)) as the sender computes it
SenderSignature(key, body) ==
    [prefix |-> "sha256=", ascii |-> TRUE,
     digest |-> [hex |-> "lower", key |-> key, msg |-> body]]

\* the body that differs from b in its last byte only
OneByteOff(b) == [b EXCEPT !.ws = 1 - @]

SignatureKinds == {"absent", "valid", "wrongkey", "otherbody", "noprefix", "nonascii"}

\* the X-Cakto-Signature header a sender of kind k attaches to body b
HeaderFor(k, b) ==
    CASE k = "absent" -> EmptySignature
      [] k = "valid" -> SenderSignature(WEBHOOK_SECRET, b)
      [] k = "wrongkey" -> SenderSignature("k2", b)
      [] k = "otherbody" -> SenderSignature(WEBHOOK_SECRET, OneByteOff(b))
      [] k = "noprefix" -> [SenderSignature(WEBHOOK_SECRET, b) EXCEPT !.prefix = ""]
      [] OTHER -> [SenderSignature(WEBHOOK_SECRET, b) EXCEPT !.ascii = FALSE]

(***************************************************************************)
(* FirebaseService (services/firebase_service.py).  The service state is   *)
(* [instance, objects, initialized, db, apps]: instance is the object the  *)
(* class attribute _instance refers to (0 for None, else the number of the *)
(* object), objects counts the objects object.__new__ has created,         *)
(* initialized is the attribute _initialized as the instance sees it, db   *)
(* is self.db ("unset" before __init__ ran, "None", or "client"), apps     *)
(* tells whether firebase_admin._apps holds an app.  The documents live in *)
(* `directory`: pending (pending_registrations), identities (Auth),        *)
(* accounts (users) and progress (user_progress).                          *)
(***************************************************************************)
\* the class as its body leaves it: _instance = None, _initialized = False
ClassLoaded == [instance |-> 0, objects |-> 0, initialized |-> FALSE, db |-> "unset", apps |-> FALSE]

\* __new__: the one instance is created on first use
FirebaseService_new(s) ==
    IF s.instance = 0
    THEN [s EXCEPT !.objects = @ + 1, !.instance = s.objects + 1]
    ELSE s

\* variant of FirebaseService_init: every construction sets db to None
FirebaseService_init_always(s) == [s EXCEPT !.db = "None", !.initialized = TRUE]

\* __init__: db is set to None on the first construction only
FirebaseService_init(s) ==
    IF ~s.initialized THEN [s EXCEPT !.db = "None", !.initialized = TRUE] ELSE s

\* FirebaseService(): __new__, then __init__ on what it returned; obj is the
\* object the expression yields
FirebaseService(s) ==
    LET made == FirebaseService_new(s) IN
    [obj |-> made.instance, s |-> FirebaseService_init(made)]

\* what the SDK and the credentials file do during one initialize() call
InitializeOutcomes == {"no_file", "bad_json", "missing_fields", "app_raises", "client_raises", "ok"}

\* initialize(): True when an app is registered and firestore.client() returned
initialize(s, outcome) ==
    IF s.apps
    THEN IF outcome = "client_raises" THEN [ret |-> "False", s |-> s]
         ELSE [ret |-> "True", s |-> [s EXCEPT !.db = "client"]]
    ELSE CASE outcome \in {"no_file", "bad_json", "missing_fields", "app_raises"} ->
                [ret |-> "False", s |-> s]
           [] outcome = "client_raises" -> [ret |-> "False", s |-> [s EXCEPT !.apps = TRUE]]
           [] OTHER -> [ret |-> "True", s |-> [s EXCEPT !.apps = TRUE, !.db = "client"]]

\* bool(firebase_admin._apps and self.db)
is_initialized(s) == s.apps /\ s.db \notin {"unset", "None"}

\* the uid Firebase Auth gives the identity with this email
UidOf(email) == "uid:" \o email

\* create_user: the uid of the new or the existing identity, None on failure
create_user(s, email, sdk) ==
    IF ~is_initialized(s) THEN [ret |-> "None", dir |-> directory]
    ELSE IF sdk = "raise" THEN [ret |-> "None", dir |-> directory]
    ELSE IF \E i \in directory.identities : i.email = email
         THEN [ret |-> UidOf(email), dir |-> directory]
    ELSE [ret |-> UidOf(email),
          dir |-> [directory EXCEPT !.identities = @ \cup {[email |-> email, disabled |-> FALSE]}]]

\* save_user_profile: users/<uid> is written
save_user_profile(s, user_uid, sdk) ==
    IF ~is_initialized(s) THEN [ret |-> "False", dir |-> directory]
    ELSE IF sdk = "raise" THEN [ret |-> "False", dir |-> directory]
    ELSE [ret |-> "True", dir |-> [directory EXCEPT !.accounts = @ \cup {[uid |-> user_uid]}]]

\* get_pending_registration: the document, None when there is none
get_pending_registration(s, registration_id, sdk) ==
    IF ~is_initialized(s) THEN [ret |-> "None", dir |-> directory]
    ELSE IF sdk = "raise" THEN [ret |-> "None", dir |-> directory]
    ELSE IF \E r \in directory.pending : r.id = registration_id
         THEN [ret |-> "doc:" \o registration_id, dir |-> directory]
    ELSE [ret |-> "None", dir |-> directory]

\* delete_pending_registration: pending_registrations/<id> is removed
delete_pending_registration(s, registration_id, sdk) ==
    IF ~is_initialized(s) THEN [ret |-> "False", dir |-> directory]
    ELSE IF sdk = "raise" THEN [ret |-> "False", dir |-> directory]
    ELSE [ret |-> "True",
          dir |-> [directory EXCEPT !.pending = {r \in @ : r.id # registration_id}]]

\* create_progress_document: user_progress/<uid> is written
create_progress_document(s, user_uid, sdk) ==
    IF ~is_initialized(s) THEN [ret |-> "False", dir |-> directory]
    ELSE IF sdk = "raise" THEN [ret |-> "False", dir |-> directory]
    ELSE [ret |-> "True", dir |-> [directory EXCEPT !.progress = @ \cup {user_uid}]]

\* no method of the service has been called yet
NoOperation == [op |-> "none", ret |-> "None", obj |-> 0]

\* the service after `firebase_service = FirebaseService()` at import (259)
Imported == [s |-> FirebaseService(ClassLoaded).s, last |-> NoOperation]

(***************************************************************************)
(* State machine: one request at a time is received, handled and answered. *)
(***************************************************************************)
NoRequest == [route |-> "none", body |-> NoPayload, sig |-> EmptySignature]

NoResponse == [status |-> 0, body |-> [k \in {} |-> "ABSENT"]]

NoCall == [called |-> FALSE, payload |-> NoPayload, signature |-> EmptySignature,
           ret |-> [exc |-> "none", val |-> "None", tr |-> <<>>]]

\* no extractor call has been made
NoExtraction == [called |-> FALSE, data |-> EmptyPayload, ret |-> Extractions([dict |-> TRUE, f |-> EmptyPayload])]

\* a directory in which nothing is registered
EmptyDirectory == [pending |-> {}, identities |-> {}, accounts |-> {}, progress |-> {}]

\* the process starts with some secret, a directory without documents, and
\* wrappers that work
Init ==
    /\ env \in EnvValues
    /\ pc = "idle"
    /\ req = NoRequest
    /\ resp = NoResponse
    /\ trace = <<>>
    /\ vcall = NoCall
    /\ xcall = NoExtraction
    /\ fb = Imported
    /\ directory = EmptyDirectory
    /\ faults = {}

\* the framework hands a POST /cakto request to the handler
Receive ==
    /\ pc = "idle"
    /\ \E b \in Bodies, k \in SignatureKinds :
          req' = [route |-> "/cakto", body |-> b, sig |-> HeaderFor(k, b)]
    /\ pc' = "received"
    /\ UNCHANGED <<env, resp, trace, vcall, directory, faults, xcall, fb>>

\* handle_cakto_webhook runs to its return
Cakto ==
    /\ pc = "received"
    /\ req.route = "/cakto"
    /\ LET r == handle_cakto_webhook(req) IN
          /\ resp' = [status |-> r.status, body |-> r.body]
          /\ trace' = r.tr
          /\ directory' = r.dir
    /\ pc' = "responded"
    /\ UNCHANGED <<env, req, vcall, faults, xcall, fb>>

\* the response is sent and the worker waits for the next request
Send ==
    /\ pc = "responded"
    /\ pc' = "idle"
    /\ req' = NoRequest
    /\ resp' = NoResponse
    /\ trace' = <<>>
    /\ faults' = {}
    /\ UNCHANGED <<env, vcall, directory, xcall, fb>>

Next == Receive \/ Cakto \/ Send

Spec == Init /\ [][Next]_vars

(***************************************************************************)
(* The signature validator on its own: validate_webhook_signature is       *)
(* called with any body and any header a sender could have computed for    *)
(* some body, under the secret the process was started with.               *)
(***************************************************************************)
ValidatorDocs ==
    {[kind |-> k, event |-> "ABSENT", type |-> "ABSENT", wrap |-> "none", f |-> EmptyPayload] :
        k \in {"nonutf8", "badjson", "nonobject"}}
    \cup {[kind |-> "object", event |-> e, type |-> "ABSENT", wrap |-> "none",
           f |-> EmptyPayload] : e \in {"ABSENT", "approved", "refunded"}}

ValidatorBodies == {[doc |-> d, ws |-> w] : d \in ValidatorDocs, w \in {0, 1}}

\* one call of validate_webhook_signature(payload, signature)
CallValidate ==
    /\ ~vcall.called
    /\ \E b \in ValidatorBodies, k \in SignatureKinds, sb \in ValidatorBodies :
          vcall' = [called |-> TRUE, payload |-> b, signature |-> HeaderFor(k, sb),
                    ret |-> validate_webhook_signature(b, HeaderFor(k, sb))]
    /\ UNCHANGED <<env, pc, req, resp, trace, directory, faults, xcall, fb>>

NextValidate == CallValidate

SpecValidate == Init /\ [][NextValidate]_vars

(***************************************************************************)
(* Reconciliation: approved, refused and refunded events and simulated     *)
(* payments, handled against a directory that holds documents and with     *)
(* wrappers whose try body may raise.                                      *)
(***************************************************************************)
\* the wrappers that try the three identification strategies, in the order of
\* webhook.py 256-284
Strategies ==
    <<"create_account_from_pending_registration_by_id",
      "create_account_from_pending_registration_by_email",
      "create_basic_account">>

\* the sets of wrappers that may raise while one request is handled
FaultSets == SUBSET ({Strategies[i] : i \in 1..3} \cup {"update_user_access_firebase"})

\* directories: empty; a pending registration R1 of a@x.com that has not
\* expired; an identity and an active account of a@x.com
Directories ==
    {EmptyDirectory,
     [pending |-> {[id |-> "R1", email |-> "a@x.com", expired |-> FALSE]},
      identities |-> {}, accounts |-> {}, progress |-> {}],
     [pending |-> {},
      identities |-> {[email |-> "a@x.com", disabled |-> FALSE]},
      accounts |-> {[email |-> "a@x.com", accessStatus |-> "active",
                     hasFullAccess |-> TRUE, isActive |-> TRUE]},
      progress |-> {}]}

ReconcileEnvs == {"UNSET", "k1"}

ReconcileEvents ==
    {"payment.approved", "payment.refused", "payment.refunded", "subscription.created"}

\* payloads that carry an email, a registration id, both or neither
ReconcilePayloads ==
    LET customers == {EmptyPayload, SetKey(EmptyPayload, "customer", "None")}
                     \cup {SetKey(EmptyPayload, "customer.email", e) :
                              e \in {"a@x.com", "b@y.com", ""}}
        emails == {p : p \in customers}
                  \cup {SetKey(p, "email", "a@x.com") : p \in customers}
        buyers == emails \cup {SetKey(p, "buyer_email", "b@y.com") : p \in emails}
    IN buyers \cup {SetKey(p, "registration_id", r) : p \in buyers, r \in {"R1", "R2"}}

ReconcileBodies ==
    {[doc |-> [kind |-> "object", event |-> e, type |-> "ABSENT", wrap |-> "none", f |-> p],
      ws |-> 0] : e \in ReconcileEvents, p \in ReconcilePayloads}

\* bodies of POST /simulate-payment: {}, {email}, {email, name}, and text that is no JSON
SimulateBodies ==
    LET emails == {EmptyPayload}
                  \cup {SetKey(EmptyPayload, "email", e) : e \in {"a@x.com", "b@y.com", "", "None"}}
        named == emails \cup {SetKey(p, "name", "Ana") : p \in emails}
    IN {[doc |-> [kind |-> "object", event |-> "ABSENT", type |-> "ABSENT", wrap |-> "none",
                  f |-> p], ws |-> 0] : p \in named}
       \cup {[doc |-> [kind |-> "badjson", event |-> "ABSENT", type |-> "ABSENT",
                       wrap |-> "none", f |-> EmptyPayload], ws |-> 0]}

InitReconcile ==
    /\ env \in ReconcileEnvs
    /\ pc = "idle"
    /\ req = NoRequest
    /\ resp = NoResponse
    /\ trace = <<>>
    /\ vcall = NoCall
    /\ xcall = NoExtraction
    /\ fb = Imported
    /\ directory \in Directories
    /\ faults = {}

\* a POST /cakto request arrives; fs are the wrappers that will raise for it
ReceiveReconcile ==
    /\ pc = "idle"
    /\ \E b \in ReconcileBodies, k \in {"absent", "valid"}, fs \in FaultSets :
          /\ req' = [route |-> "/cakto", body |-> b, sig |-> HeaderFor(k, b)]
          /\ faults' = fs
    /\ pc' = "received"
    /\ UNCHANGED <<env, resp, trace, vcall, directory, xcall, fb>>

\* a POST /simulate-payment request arrives
ReceiveSimulate ==
    /\ pc = "idle"
    /\ \E b \in SimulateBodies, fs \in FaultSets :
          /\ req' = [route |-> "/simulate-payment", body |-> b, sig |-> EmptySignature]
          /\ faults' = fs
    /\ pc' = "received"
    /\ UNCHANGED <<env, resp, trace, vcall, directory, xcall, fb>>

\* simulate_payment runs to its return
Simulate ==
    /\ pc = "received"
    /\ req.route = "/simulate-payment"
    /\ LET r == simulate_payment(req) IN
          /\ resp' = [status |-> r.status, body |-> r.body]
          /\ trace' = r.tr
          /\ directory' = r.dir
    /\ pc' = "responded"
    /\ UNCHANGED <<env, req, vcall, faults, xcall, fb>>

NextReconcile == ReceiveReconcile \/ ReceiveSimulate \/ Cakto \/ Simulate \/ Send

SpecReconcile == InitReconcile /\ [][NextReconcile]_vars

(***************************************************************************)
(* Extraction: the six extractors on their own and behind POST             *)
(* /test-extraction, on payloads that populate several probed locations at *)
(* once.                                                                   *)
(***************************************************************************)
\* ps and every payload of ps with key k set to one of vs
WithKey(ps, k, vs) == ps \cup {SetKey(p, k, v) : p \in ps, v \in vs}

ExtractionPayloads ==
    LET p1 == WithKey(WithKey({EmptyPayload}, "customer", {"None", "OBJ"}),
                      "customer.email", {"a@x.com", ""})
        p2 == WithKey(p1, "email", {"a@x.com", ""})
        p3 == WithKey(p2, "customer_email", {"b@y.com"})
        p4 == WithKey(p3, "metadata", {"", "{bad", "[1]", "DICT", "JSON"})
              \cup {SetKey(p, "metadata.email", "c@z.com") : p \in p3}
        p5 == WithKey(p4, "user_data", {""})
              \cup {SetKey(p, "user_data.email", "d@w.com") : p \in p4}
        p6 == WithKey(p5, "order_id", {"O1"})
        p7 == WithKey(p6, "custom_fields", {"None"})
    IN WithKey(p7, "amount", {"97"})

\* bodies of POST /test-extraction: a JSON object, or text that is no JSON
ExtractionBodies ==
    {[doc |-> [kind |-> "object", event |-> "ABSENT", type |-> "ABSENT", wrap |-> "none",
               f |-> p], ws |-> 0] : p \in ExtractionPayloads}
    \cup {[doc |-> [kind |-> "badjson", event |-> "ABSENT", type |-> "ABSENT",
                    wrap |-> "none", f |-> EmptyPayload], ws |-> 0]}

InitExtract ==
    /\ env = "UNSET"
    /\ pc = "idle"
    /\ req = NoRequest
    /\ resp = NoResponse
    /\ trace = <<>>
    /\ vcall = NoCall
    /\ xcall = NoExtraction
    /\ fb = Imported
    /\ directory \in Directories
    /\ faults = {}

\* the six extractors are called on one payload
CallExtract ==
    /\ pc = "idle"
    /\ ~xcall.called
    /\ \E p \in ExtractionPayloads :
          xcall' = [called |-> TRUE, data |-> p, ret |-> Extractions([dict |-> TRUE, f |-> p])]
    /\ UNCHANGED <<env, pc, req, resp, trace, vcall, directory, faults, fb>>

\* a POST /test-extraction request arrives (requests are served in runs
\* that do not call the extractors directly)
ReceiveExtraction ==
    /\ pc = "idle"
    /\ ~xcall.called
    /\ \E b \in ExtractionBodies :
          req' = [route |-> "/test-extraction", body |-> b, sig |-> EmptySignature]
    /\ pc' = "received"
    /\ UNCHANGED <<env, resp, trace, vcall, directory, faults, xcall, fb>>

\* test_webhook_extraction runs to its return
TestExtraction ==
    /\ pc = "received"
    /\ req.route = "/test-extraction"
    /\ LET r == test_webhook_extraction(req) IN
          /\ resp' = [status |-> r.status, body |-> r.body]
          /\ trace' = r.tr
          /\ directory' = r.dir
    /\ pc' = "responded"
    /\ UNCHANGED <<env, req, vcall, faults, xcall, fb>>

NextExtract == CallExtract \/ ReceiveExtraction \/ TestExtraction \/ Send

SpecExtract == InitExtract /\ [][NextExtract]_vars

(***************************************************************************)
(* The Firebase service on its own: after the import any caller may        *)
(* construct FirebaseService again, call initialize() with any fate of the *)
(* credentials file and the SDK, and call the five operations.  fb.last    *)
(* records the last call, what it returned and, for a construction, the    *)
(* object it yielded.                                                      *)
(***************************************************************************)
FirebaseEmails == {"a@x.com", "b@y.com"}

FirebaseUids == {UidOf(e) : e \in FirebaseEmails}

FirebaseRegistrationIds == {"R1", "R2"}

\* what a call into the SDK does
SdkOutcomes == {"ok", "raise"}

\* the five operations that reach the directory
FirebaseOperations ==
    {"create_user", "save_user_profile", "get_pending_registration",
     "delete_pending_registration", "create_progress_document"}

\* directories without identities and accounts: empty, or a pending registration R1
FirebaseDirectories == {d \in Directories : d.identities = {} /\ d.accounts = {}}

InitFirebase ==
    /\ env = "UNSET"
    /\ pc = "idle"
    /\ req = NoRequest
    /\ resp = NoResponse
    /\ trace = <<>>
    /\ vcall = NoCall
    /\ xcall = NoExtraction
    /\ fb = Imported
    /\ directory \in FirebaseDirectories
    /\ faults = {}

\* FirebaseService() is evaluated once more
Construct ==
    /\ LET r == FirebaseService(fb.s) IN
          fb' = [s |-> r.s, last |-> [op |-> "FirebaseService", ret |-> "None", obj |-> r.obj]]
    /\ UNCHANGED <<env, pc, req, resp, trace, vcall, directory, faults, xcall>>

\* firebase_service.initialize() is called
Initialize ==
    /\ \E outcome \in InitializeOutcomes :
          LET r == initialize(fb.s, outcome) IN
          fb' = [s |-> r.s, last |-> [op |-> "initialize", ret |-> r.ret, obj |-> 0]]
    /\ UNCHANGED <<env, pc, req, resp, trace, vcall, directory, faults, xcall>>

\* firebase_service.is_initialized() is called
IsInitialized ==
    /\ fb' = [fb EXCEPT !.last = [op |-> "is_initialized",
                                  ret |-> IF is_initialized(fb.s) THEN "True" ELSE "False",
                                  obj |-> 0]]
    /\ UNCHANGED <<env, pc, req, resp, trace, vcall, directory, faults, xcall>>

\* the service after operation op returned r
AfterOperation(op, r) ==
    /\ fb' = [fb EXCEPT !.last = [op |-> op, ret |-> r.ret, obj |-> 0]]
    /\ directory' = r.dir
    /\ UNCHANGED <<env, pc, req, resp, trace, vcall, faults, xcall>>

CreateUser ==
    \E email \in FirebaseEmails, sdk \in SdkOutcomes :
        AfterOperation("create_user", create_user(fb.s, email, sdk))

SaveUserProfile ==
    \E uid \in FirebaseUids, sdk \in SdkOutcomes :
        AfterOperation("save_user_profile", save_user_profile(fb.s, uid, sdk))

GetPendingRegistration ==
    \E id \in FirebaseRegistrationIds, sdk \in SdkOutcomes :
        AfterOperation("get_pending_registration", get_pending_registration(fb.s, id, sdk))

DeletePendingRegistration ==
    \E id \in FirebaseRegistrationIds, sdk \in SdkOutcomes :
        AfterOperation("delete_pending_registration", delete_pending_registration(fb.s, id, sdk))

CreateProgressDocument ==
    \E uid \in FirebaseUids, sdk \in SdkOutcomes :
        AfterOperation("create_progress_document", create_progress_document(fb.s, uid, sdk))

NextFirebase ==
    \/ Construct
    \/ Initialize
    \/ IsInitialized
    \/ CreateUser
    \/ SaveUserProfile
    \/ GetPendingRegistration
    \/ DeletePendingRegistration
    \/ CreateProgressDocument

SpecFirebase == InitFirebase /\ [][NextFirebase]_vars

(***************************************************************************)
(* Properties.                                                             *)
(***************************************************************************)
PaymentHandlers ==
    {"handle_payment_approved", "handle_payment_refused", "handle_payment_refunded"}

DirectoryCalls ==
    {"create_account_with_identification_strategy",
     "create_account_from_pending_registration_by_id",
     "create_account_from_pending_registration_by_email",
     "create_basic_account", "update_user_access_firebase"}

\* the function or log entry `name` occurs in the handling of the last request
Handled(name) == \E i \in DOMAIN trace : trace[i] = name

\* no payment handler and no directory-service wrapper was entered
NoHandlerRan == \A i \in DOMAIN trace : trace[i] \notin PaymentHandlers \cup DirectoryCalls

\* exactly the payment handler h was entered
OnlyHandler(h) == Handled(h) /\ \A g \in PaymentHandlers \ {h} : ~Handled(g)

\* the request was answered and its answer is in resp
Answered == pc = "responded"

\* the secret is absent or is the default sentinel
DefaultSecret == env \in {"UNSET", "nutraflex_webhook_secret_2025"}

\* the event type the sender put into the body
SentEventType(d) ==
    IF d.event # "ABSENT" THEN d.event
    ELSE IF d.type # "ABSENT" THEN d.type
    ELSE "payment.approved"

KnownAliases ==
    {"payment.approved", "payment_approved", "approved", "completed",
     "payment.refused", "payment_refused", "refused", "failed",
     "payment.refunded", "payment_refunded", "refunded"}

\* the payload is an object whose 'customer' is missing or an object
WellFormedCustomer(d) ==
    d.wrap \in {"none", "data"} /\ Val(d.f, "customer") \in {"ABSENT", "OBJ"}

\* the payload holds a non-empty email at customer.email or at email
EmailPresent(d) ==
    /\ d.wrap \in {"none", "data"}
    /\ \/ Truthy(Val(d.f, "email"))
       \/ Val(d.f, "customer") = "OBJ" /\ Truthy(Val(d.f, "customer.email"))

\* the answer is the acknowledgement of an event that is not handled
UnhandledAnswer ==
    /\ resp.status = 200
    /\ Val(resp.body, "message") = "Evento nao tratado"
    /\ NoHandlerRan

\* C1: the validator accepts "sha256=" + hex(HMAC_SHA256(secret, body)) for the
\* body it was computed for, and rejects it for every other body, among them
\* the body that differs in one byte.
C1_ValidAcceptedTamperedRejected ==
    vcall.called =>
        /\ vcall.signature = SenderSignature(WEBHOOK_SECRET, vcall.payload)
              => vcall.ret.exc = "none" /\ vcall.ret.val = "True"
        /\ \A b \in ValidatorBodies :
              b # vcall.payload /\ vcall.signature = SenderSignature(WEBHOOK_SECRET, b)
                 => vcall.ret.exc = "none" /\ vcall.ret.val = "False"

\* C1 witness: the signature of the body one byte away was presented and rejected
C1_Witness ==
    /\ vcall.called
    /\ env = "k1"
    /\ vcall.signature = SenderSignature("k1", OneByteOff(vcall.payload))
    /\ vcall.ret.val = "False"

\* C2 as stated: the validator returns false for an empty header, for an unset
\* secret and when the comparison raises, and never raises itself.
C2_FailsClosedWhenSecretUnset ==
    vcall.called =>
        /\ vcall.ret.exc = "none"
        /\ (vcall.signature = EmptySignature \/ env = "UNSET" \/ ~vcall.signature.ascii)
              => vcall.ret.val = "False"

\* C2 amended: the validator returns false for an empty header and when the
\* comparison raises, and never raises itself.
C2_FailsClosed ==
    vcall.called =>
        /\ vcall.ret.exc = "none"
        /\ (vcall.signature = EmptySignature \/ ~vcall.signature.ascii)
              => vcall.ret.val = "False"

\* C2 witness: the comparison raised on a header that is not ASCII, and the
\* validator returned false
C2_Witness ==
    /\ vcall.called
    /\ ~vcall.signature.ascii
    /\ vcall.ret.exc = "none"
    /\ vcall.ret.val = "False"

\* C3 as stated: with the secret absent, empty or default no request is answered
\* 401; with any other secret a request is answered 401 exactly when its
\* signature is not the expected one.
C3_BypassForAbsentEmptyDefault ==
    Answered =>
        IF DefaultSecret \/ env = ""
        THEN resp.status # 401
        ELSE resp.status = 401 <=> req.sig # SenderSignature(env, req.body)

\* C3 amended: with the secret absent or default no request is answered 401;
\* with any other secret, the empty string included, a request is answered 401
\* exactly when its signature is not the expected one.
C3_BypassForAbsentDefault ==
    Answered =>
        IF DefaultSecret
        THEN resp.status # 401
        ELSE resp.status = 401 <=> req.sig # SenderSignature(env, req.body)

\* C3 witness: the secret is absent and a request signed with a foreign key was
\* processed
C3_Witness ==
    /\ Answered
    /\ env = "UNSET"
    /\ req.sig = SenderSignature("k2", req.body)
    /\ resp.status = 200
    /\ Handled("handle_payment_approved")

\* C4: a request handled while the bypass is active writes a warning to the log
\* before any payment handler is entered.
C4_BypassWarns ==
    Answered /\ DefaultSecret =>
        \E i \in DOMAIN trace :
            /\ trace[i] = "log.warning"
            /\ \A j \in DOMAIN trace : trace[j] \in PaymentHandlers => i < j

\* C5: with a non-default secret, a request whose signature is not the expected
\* one is answered 401, its body is not parsed and no handler runs.
C5_MismatchRejectedUnparsed ==
    Answered /\ ~DefaultSecret /\ req.sig # SenderSignature(env, req.body) =>
        /\ resp.status = 401
        /\ ~Handled("json.loads")
        /\ NoHandlerRan

\* C5 witness: an approved event signed with a foreign key was answered 401
C5_Witness ==
    /\ Answered
    /\ env = "k1"
    /\ req.sig = SenderSignature("k2", req.body)
    /\ req.body.doc.event = "payment.approved"
    /\ resp.status = 401

\* C6: a request that passed the signature step and whose body is no UTF-8, no
\* JSON text or no JSON object is answered 400 and runs no handler.
C6_MalformedBodyAnswered400 ==
    Answered /\ resp.status # 401
             /\ req.body.doc.kind \in {"nonutf8", "badjson", "nonobject"} =>
        resp.status = 400 /\ NoHandlerRan

\* C7 as stated: a request without the signature header is answered 4xx and runs
\* no handler, whatever the secret.
C7_MissingSignatureAlways4xx ==
    Answered /\ req.sig = EmptySignature =>
        resp.status \in 400..499 /\ NoHandlerRan

\* C7 amended: a request without the signature header is answered 401 and runs no
\* handler whenever a non-default secret is configured.
C7_MissingSignatureRejected ==
    Answered /\ req.sig = EmptySignature /\ ~DefaultSecret =>
        resp.status = 401 /\ NoHandlerRan

\* C7 witness: the empty secret is configured and a request without header was
\* answered 401
C7_Witness ==
    /\ Answered
    /\ env = ""
    /\ req.sig = EmptySignature
    /\ req.body.doc.event = "approved"
    /\ resp.status = 401

\* C8: the three alias sets lead to their handler and to no other; an unknown
\* event type with an email present is handled as approved, and an unknown
\* event type without an email is acknowledged as not handled.
C8_Classification ==
    Answered /\ resp.status # 401 /\ req.body.doc.kind = "object" =>
        LET d == req.body.doc
            e == SentEventType(d)
        IN
        /\ e \in {"payment.approved", "payment_approved", "approved", "completed"}
              => OnlyHandler("handle_payment_approved")
        /\ e \in {"payment.refused", "payment_refused", "refused", "failed"}
              => OnlyHandler("handle_payment_refused")
        /\ e \in {"payment.refunded", "payment_refunded", "refunded"}
              => OnlyHandler("handle_payment_refunded")
        /\ e \notin KnownAliases /\ EmailPresent(d)
              => OnlyHandler("handle_payment_approved")
        /\ e \notin KnownAliases /\ ~EmailPresent(d)
              => UnhandledAnswer

\* C9: for an unknown event type and a payload the extractor reads without
\* error, the event is handled as approved exactly when extract_customer_email
\* yields an email, and acknowledged as not handled otherwise.
C9_ApprovedIffEmailExtractable ==
    Answered /\ resp.status # 401 /\ req.body.doc.kind = "object"
             /\ SentEventType(req.body.doc) \notin KnownAliases
             /\ WellFormedCustomer(req.body.doc)
             /\ extract_customer_email(DataOf(req.body.doc)).exc = "none" =>
        IF Truthy(extract_customer_email(DataOf(req.body.doc)).val)
        THEN OnlyHandler("handle_payment_approved")
        ELSE UnhandledAnswer

Reconciled ==
    /\ Answered
    /\ req.route = "/cakto"
    /\ Handled("create_account_with_identification_strategy")

\* the strategy wrappers that were entered, in the order they were entered
EnteredStrategies ==
    SelectSeq(trace, LAMBDA x : x \in {Strategies[i] : i \in 1..3})

\* the payload carries a registration id
RegistrationIdSent == Truthy(Val(req.body.doc.f, "registration_id"))

\* the strategies in the order they are due for the request
DueStrategies == IF RegistrationIdSent THEN Strategies ELSE Tail(Strategies)

\* the identification_method that stands for strategy s
MethodOf(s) ==
    CASE s = "create_account_from_pending_registration_by_id" -> "registration_id"
      [] s = "create_account_from_pending_registration_by_email" -> "email"
      [] OTHER -> "basic_account"

\* the error a strategy reports when it fails
StrategyError(s) ==
    CASE s = "create_account_from_pending_registration_by_id" ->
             "Erro ao criar conta por registration_id: E"
      [] s = "create_account_from_pending_registration_by_email" ->
             "Erro ao criar conta por email: E"
      [] OTHER -> "Erro ao criar conta basica: E"

\* C11: the strategies are entered in the order by-id (only with a registration
\* id), by-email, basic account; every strategy entered before the last one
\* failed; a strategy that succeeds is the last one entered and its method is
\* the one reported; when the last one entered failed, all were tried and no
\* method is reported.
C11_FirstSuccessWins ==
    Reconciled =>
        LET entered == EnteredStrategies
            n == Len(entered)
        IN
        /\ n \in 1..Len(DueStrategies)
        /\ entered = SubSeq(DueStrategies, 1, n)
        /\ \A i \in 1..(n - 1) : entered[i] \in faults
        /\ IF entered[n] \notin faults
           THEN Val(resp.body, "identification_method") = MethodOf(entered[n])
           ELSE n = Len(DueStrategies) /\ Val(resp.body, "identification_method") = "ABSENT"

\* C11 witness: with a registration id, the lookup by id failed and the lookup
\* by email succeeded and was reported
C11_Witness ==
    /\ Reconciled
    /\ RegistrationIdSent
    /\ EnteredStrategies = SubSeq(Strategies, 1, 2)
    /\ Strategies[1] \in faults
    /\ Val(resp.body, "identification_method") = "email"

\* C12 as stated: the result is a success exactly when a strategy that was
\* tried succeeded, and when all failed it carries the error of the last one.
C12_SuccessIffAnyLastError ==
    Reconciled =>
        LET entered == EnteredStrategies IN
        /\ Val(resp.body, "success") = "True"
              <=> \E i \in 1..Len(entered) : entered[i] \notin faults
        /\ (\A i \in 1..Len(entered) : entered[i] \in faults)
              => /\ Val(resp.body, "error") = "Erro ao criar conta"
                 /\ Val(resp.body, "details") = StrategyError(entered[Len(entered)])

\* C12 amended: the result is a success exactly when a strategy that was tried
\* succeeded, and when all failed it carries one fixed error, the same whatever
\* the strategies reported.
C12_SuccessIffAnyFixedError ==
    Reconciled =>
        LET entered == EnteredStrategies IN
        /\ Val(resp.body, "success") = "True"
              <=> \E i \in 1..Len(entered) : entered[i] \notin faults
        /\ (\A i \in 1..Len(entered) : entered[i] \in faults)
              => /\ Val(resp.body, "error") = "Erro ao criar conta"
                 /\ Val(resp.body, "details")
                       = "Nao foi possivel criar conta com nenhuma estrategia de identificacao"

\* C12 witness: all three strategies were tried and failed
C12_Witness ==
    /\ Reconciled
    /\ EnteredStrategies = Strategies
    /\ \A i \in 1..3 : Strategies[i] \in faults
    /\ Val(resp.body, "success") = "ABSENT"
    /\ Val(resp.body, "error") = "Erro ao criar conta"

\* the request passes the signature step
Authentic == DefaultSecret \/ req.sig = SenderSignature(env, req.body)

\* a POST /cakto request that passes the signature step and whose event type is
\* one of `aliases` is about to be handled
Incoming(aliases) ==
    /\ pc = "received"
    /\ req.route = "/cakto"
    /\ Authentic
    /\ SentEventType(req.body.doc) \in aliases

\* the email a payload carries at customer.email, email or buyer_email
CarriedEmail(d) ==
    IF Val(d.f, "customer") = "OBJ" /\ Truthy(Val(d.f, "customer.email"))
    THEN d.f["customer.email"]
    ELSE IF Truthy(Val(d.f, "email")) THEN d.f["email"]
    ELSE IF Truthy(Val(d.f, "buyer_email")) THEN d.f["buyer_email"]
    ELSE "None"

\* the directory dir holds a pending registration id of email that has not expired
PendingFor(dir, id, email) ==
    \E p \in dir.pending : p.id = id /\ p.email = email /\ ~p.expired

\* C13: with a pending registration R1 of a@x.com that has not expired, an
\* approved event that carries registration id R1 and email a@x.com is
\* answered with success and method 'registration_id', and afterwards the
\* directory holds no pending registration R1.
C13_ByIdConsumesPending ==
    [][(/\ Incoming({"payment.approved", "payment_approved", "approved", "completed"})
        /\ faults = {}
        /\ PendingFor(directory, "R1", "a@x.com")
        /\ Val(req.body.doc.f, "registration_id") = "R1"
        /\ CarriedEmail(req.body.doc) = "a@x.com")
       => (/\ resp'.status = 200
           /\ Val(resp'.body, "success") = "True"
           /\ Val(resp'.body, "identification_method") = "registration_id"
           /\ \A p \in directory'.pending : p.id # "R1")]_vars

\* C14: with a pending registration R1 of a@x.com and none of b@y.com, an
\* approved event that carries registration id R1 and email b@y.com fails by
\* id, fails by email and is reconciled by a basic account; its method is
\* 'basic_account'.
C14_MismatchFallsToBasic ==
    [][(/\ Incoming({"payment.approved", "payment_approved", "approved", "completed"})
        /\ faults = {}
        /\ PendingFor(directory, "R1", "a@x.com")
        /\ \A p \in directory.pending : p.email # "b@y.com"
        /\ Val(req.body.doc.f, "registration_id") = "R1"
        /\ CarriedEmail(req.body.doc) = "b@y.com")
       => (/\ resp'.status = 200
           /\ Val(resp'.body, "success") = "True"
           /\ Val(resp'.body, "identification_method") = "basic_account")]_vars

\* C15: handling a refused event leaves the directory as it was and is
\* answered with success and the email the payload carries.
C15_RefusedIsNoOp ==
    [][Incoming({"payment.refused", "payment_refused", "refused", "failed"})
       => (/\ directory' = directory
           /\ resp'.status = 200
           /\ Val(resp'.body, "success") = "True"
           /\ Val(resp'.body, "customer_email") = CarriedEmail(req.body.doc))]_vars

\* C16: with an identity of a@x.com, a refunded event for a@x.com leaves that
\* identity disabled and its account with accessStatus 'refunded',
\* hasFullAccess false and isActive false.
C16_RefundRevokes ==
    [][(/\ Incoming({"payment.refunded", "payment_refunded", "refunded"})
        /\ faults = {}
        /\ \E i \in directory.identities : i.email = "a@x.com"
        /\ Val(req.body.doc.f, "customer") \in {"ABSENT", "OBJ"}
        /\ CarriedEmail(req.body.doc) = "a@x.com")
       => (/\ \A i \in directory'.identities : i.email = "a@x.com" => i.disabled
           /\ \A a \in directory'.accounts :
                 a.email = "a@x.com"
                    => a.accessStatus = "refunded" /\ ~a.hasFullAccess /\ ~a.isActive)]_vars

\* C17: a refunded event whose email has no identity in the directory, or that
\* carries no email, is answered 200 with an error body and never with success.
C17_RefundUnknownReported ==
    [][(/\ Incoming({"payment.refunded", "payment_refunded", "refunded"})
        /\ faults = {}
        /\ Val(req.body.doc.f, "customer") \in {"ABSENT", "OBJ"}
        /\ \A i \in directory.identities : i.email # CarriedEmail(req.body.doc))
       => (/\ resp'.status = 200
           /\ Val(resp'.body, "error") # "ABSENT"
           /\ Val(resp'.body, "success") = "ABSENT")]_vars

\* reconciliation could not complete: every strategy tried for an approved
\* event failed, or the access update of a refunded event failed
ReconciliationFailed ==
    \/ /\ Reconciled
       /\ \A i \in 1..Len(EnteredStrategies) : EnteredStrategies[i] \in faults
    \/ /\ Answered
       /\ req.route = "/cakto"
       /\ Handled("handle_payment_refunded")
       /\ Handled("update_user_access_firebase")
       /\ "update_user_access_firebase" \in faults

\* the access update of a refused event failed
RefusedUpdateFailed ==
    /\ Answered
    /\ req.route = "/cakto"
    /\ Handled("handle_payment_refused")
    /\ Handled("update_user_access_firebase")
    /\ "update_user_access_firebase" \in faults

UncaughtException(d) ==
    CASE d.kind = "nonutf8" -> "UnicodeDecodeError"
      [] d.kind = "nonobject" -> "AttributeError"
      [] /\ d.kind = "object"
         /\ SentEventType(d) \notin KnownAliases
         /\ \/ d.wrap \in {"null", "scalar"}
            \/ Val(d.f, "customer") \in {"None", "STR"} -> "AttributeError"
      [] OTHER -> "none"

\* C19: every POST /cakto request is answered by the handler itself, with 200,
\* 400, 401 or 500; when an exception is raised that no inner step catches the
\* answer is 500 and carries the text of the exception, and no other request
\* is answered 500.
C19_BoundaryCatchesAll ==
    Answered /\ req.route = "/cakto" =>
        /\ resp.status \in {200, 400, 401, 500}
        /\ Authentic /\ UncaughtException(req.body.doc) # "none"
              => /\ resp.status = 500
                 /\ Val(resp.body, "error") = "Erro interno do servidor"
                 /\ Val(resp.body, "details") = UncaughtException(req.body.doc)
        /\ resp.status = 500
              => Authentic /\ UncaughtException(req.body.doc) # "none"

\* C19 witness: a body that is no UTF-8 was answered 500 with the decoding error
C19_Witness ==
    /\ Answered
    /\ req.body.doc.kind = "nonutf8"
    /\ resp.status = 500
    /\ Val(resp.body, "details") = "UnicodeDecodeError"

\* the approved webhook request that carries email e at customer.email
ApprovedWebhook(e) ==
    LET b == [doc |-> [kind |-> "object", event |-> "payment.approved", type |-> "ABSENT",
                       wrap |-> "none", f |-> SetKey(EmptyPayload, "customer.email", e)],
              ws |-> 0]
    IN [route |-> "/cakto", body |-> b, sig |-> SenderSignature(WEBHOOK_SECRET, b)]

ResultFields == {"success", "error", "details", "customer_email", "status", "identification_method"}

\* C20: the result of POST /simulate-payment with {"email": e} agrees, in its
\* success and error fields, customer_email, status and identification_method,
\* with the answer to an approved webhook that carries e in customer.email,
\* for the same directory and the same failing wrappers.
C20_SimulateAgreesWithWebhook ==
    /\ Answered
    /\ req.route = "/simulate-payment"
    /\ req.body.doc.kind = "object"
    /\ Val(req.body.doc.f, "email") # "ABSENT"
    => LET webhook == handle_cakto_webhook(ApprovedWebhook(req.body.doc.f["email"])) IN
       /\ resp.status = 200
       /\ webhook.status = 200
       /\ \A k \in ResultFields : Val(resp.body["result"], k) = Val(webhook.body, k)
       /\ webhook.dir = directory

\* C20 witness: a simulated payment for a@x.com succeeded by email
C20_Witness ==
    /\ Answered
    /\ req.route = "/simulate-payment"
    /\ Val(req.body.doc.f, "email") = "a@x.com"
    /\ Val(resp.body["result"], "success") = "True"
    /\ Val(resp.body["result"], "customer_email") = "a@x.com"
    /\ Val(resp.body["result"], "identification_method") = "email"

(***************************************************************************)
(* Claims about field extraction.                                          *)
(***************************************************************************)
\* the locations extract_customer_email probes, in order
EmailLocations ==
    <<"customer.email", "email", "buyer_email", "customer_email", "custom_field_2",
      "metadata.email", "user_data.email">>

\* the payload f holds a non-null, non-empty value at location k
HoldsAt(f, k) == Truthy(Val(f, k))

\* no probed email location of f holds a non-empty value
NoEmailAnywhere(f) == \A i \in 1..Len(EmailLocations) : ~HoldsAt(f, EmailLocations[i])

SucceededBy(m) ==
    /\ Reconciled
    /\ resp.status = 200
    /\ Val(resp.body, "success") = "True"
    /\ Val(resp.body, "identification_method") = m

\* C22: a redelivered Approved event is not idempotent on the pending path:
\* once a delivery was reconciled by 'registration_id' or 'email', the same
\* request delivered again is reconciled by 'basic_account'; a redelivery of a
\* request reconciled by 'basic_account' gets the same answer again.
C22_RedeliveryFallsToBasic ==
    LET again == handle_cakto_webhook(req) IN
    /\ (SucceededBy("registration_id") \/ SucceededBy("email"))
          => Val(again.body, "identification_method") = "basic_account"
    /\ SucceededBy("basic_account")
          => again.status = resp.status /\ again.body = resp.body

\* C23: when a JSON-encoded sub-field (metadata, user_data) is handed to
\* extract_from_json, no error leaves the call, and for every value that does
\* not yield the key (text that is no JSON, text that encodes a list or a
\* number, a value that is no string) the call returns None, so the path
\* counts as absent.
C23_JsonSubFieldNeverRaises ==
    xcall.called =>
        \A parent \in JsonParents, key \in {"email", "name", "registration_id"} :
            Truthy(Get(xcall.data, parent)) =>
                LET r == extract_from_json(xcall.data, parent, key) IN
                /\ r.exc = "none"
                /\ Val(xcall.data, parent \o "." \o key) = "ABSENT" => r.val = "None"

\* the locations probed for each field of POST /test-extraction
ProbedLocations ==
    [customer_email |-> {EmailLocations[i] : i \in 1..Len(EmailLocations)},
     customer_name |-> {"customer.name", "name", "buyer_name", "customer_name",
                        "custom_field_3", "metadata.name", "user_data.name"},
     registration_id |-> {"registration_id", "custom_field_1", "external_id", "reference",
                          "order_id", "custom_fields.registration_id",
                          "metadata.registration_id", "user_data.registration_id",
                          "customer.registration_id"},
     transaction_id |-> {"transaction_id", "id", "payment_id", "order_id"},
     amount |-> {"amount", "value", "total", "price"},
     product_id |-> {"product_id", "product", "item_id"}]

\* some location probed for field holds a non-null, non-empty value in f
SomeLocationHolds(f, field) == \E k \in ProbedLocations[field] : HoldsAt(f, k)

\* a POST /test-extraction request with a JSON object body was answered
ExtractionAnswered ==
    /\ Answered
    /\ req.route = "/test-extraction"
    /\ req.body.doc.kind = "object"

\* C24: POST /test-extraction accepts every JSON object body, runs the six
\* extractors and nothing else, reports each of the six fields in exactly one
\* of found_data and missing_data (in found_data exactly when some probed
\* location held a non-null, non-empty value), and sets
\* identification_possible exactly when an email was found.
C24_TestExtractionReportsAllFields ==
    ExtractionAnswered =>
        /\ resp.status = 200
        /\ NoHandlerRan
        /\ \A field \in DOMAIN ProbedLocations :
              /\ (field \in DOMAIN resp.body["found_data"])
                     # (field \in resp.body["missing_data"])
              /\ (field \in DOMAIN resp.body["found_data"])
                     <=> SomeLocationHolds(req.body.doc.f, field)
        /\ resp.body["identification_possible"]
              <=> "customer_email" \in DOMAIN resp.body["found_data"]

\* the locations probed for each field, in the order they are probed
OrderedLocations ==
    [customer_email |-> EmailLocations,
     customer_name |-> <<"customer.name", "name", "buyer_name", "customer_name",
                         "custom_field_3", "metadata.name", "user_data.name">>,
     registration_id |-> <<"registration_id", "custom_field_1", "external_id", "reference",
                           "order_id", "custom_fields.registration_id",
                           "metadata.registration_id", "user_data.registration_id",
                           "customer.registration_id">>,
     transaction_id |-> <<"transaction_id", "id", "payment_id", "order_id">>,
     amount |-> <<"amount", "value", "total", "price">>,
     product_id |-> <<"product_id", "product", "item_id">>]

\* the value of the first location of ks at which f holds a non-empty value
RECURSIVE FirstHeld(_, _)
FirstHeld(f, ks) ==
    IF Len(ks) = 0 THEN "None"
    ELSE IF HoldsAt(f, ks[1]) THEN f[ks[1]]
    ELSE FirstHeld(f, Tail(ks))

\* C25: for each field, the extractor returns the value of the first location
\* of its ordered list that holds a non-null, non-empty value, whatever the
\* other locations and the other fields hold; a later location never
\* overrides an earlier non-empty one.
C25_FirstNonEmptyLocationWins ==
    xcall.called =>
        \A field \in DOMAIN OrderedLocations :
            SomeLocationHolds(xcall.data, field) =>
                xcall.ret[field] = Ret(FirstHeld(xcall.data, OrderedLocations[field]))

(***************************************************************************)
(* Claims about classification and dispatch.                               *)
(***************************************************************************)
\* C26: an event whose type is the literal 'purchase_approved' is classified
\* Approved by membership in the alias set, with or without a customer email
\* in the payload, and is never acknowledged as Unhandled.
C26_PurchaseApprovedIsAlias ==
    /\ Answered
    /\ req.route = "/cakto"
    /\ resp.status # 401
    /\ req.body.doc.kind = "object"
    /\ SentEventType(req.body.doc) = "purchase_approved"
    => /\ "purchase_approved" \in ApprovedEvents
       /\ OnlyHandler("handle_payment_approved")
       /\ ~UnhandledAnswer

\* C27: handle_payment_refused and handle_payment_refunded act on the email
\* that extract_customer_email returns for the payload, so an email that is
\* present only at customer_email, custom_field_2, metadata or user_data is
\* recognised for refusals and refunds as it is for approvals.
C27_RefusedRefundedUseExtractor ==
    /\ Answered
    /\ req.route = "/cakto"
    /\ Handled("handle_payment_refused") \/ Handled("handle_payment_refunded")
    /\ extract_customer_email(DataOf(req.body.doc)).exc = "none"
    => LET email == extract_customer_email(DataOf(req.body.doc)).val
           acted == Val(resp.body, "customer_email")
       IN IF Truthy(email) THEN acted = email ELSE ~Truthy(acted)

\* a POST /cakto request with a JSON object body passed the signature step and
\* was answered
ObjectAnswered ==
    /\ Answered
    /\ req.route = "/cakto"
    /\ resp.status # 401
    /\ req.body.doc.kind = "object"

\* C28: the event type is read from 'event', else from 'type', else it is
\* 'payment.approved': a JSON object body with neither key is always handed
\* to the approved handling and never acknowledged as Unhandled, and its
\* data is what the 'data' key holds when there is one, else the whole body.
C28_EventTypeDefaultsToApproved ==
    ObjectAnswered =>
        LET d == req.body.doc IN
        /\ d.event \in {"payment.refused", "payment_refused", "refused", "failed"}
              => OnlyHandler("handle_payment_refused")
        /\ d.event = "ABSENT" /\ d.type \in {"payment.refunded", "payment_refunded", "refunded"}
              => OnlyHandler("handle_payment_refunded")
        /\ d.event = "ABSENT" /\ d.type = "ABSENT"
              => /\ OnlyHandler("handle_payment_approved")
                 /\ ~UnhandledAnswer
                 /\ resp.status = 200
                 /\ d.wrap \in {"none", "data"} /\ DOMAIN d.f = {"email"} /\ Truthy(d.f["email"])
                       => Val(resp.body, "customer_email") = d.f["email"]

\* a body without 'event' and 'type' whose 'data' holds no email was handed
\* to the approved handling
C28_Witness ==
    /\ ObjectAnswered
    /\ req.body.doc.event = "ABSENT"
    /\ req.body.doc.type = "ABSENT"
    /\ req.body.doc.wrap = "data"
    /\ req.body.doc.f = EmptyPayload
    /\ Handled("handle_payment_approved")
    /\ Val(resp.body, "error") = "Email do cliente nao encontrado"

\* C29: an Approved event from whose payload no email can be extracted never
\* reaches the identification strategies: handle_payment_approved returns the
\* error 'Email do cliente não encontrado' without calling
\* create_account_with_identification_strategy, and the answer is 200 with
\* that error and without 'success'.
C29_NoEmailStopsBeforeStrategies ==
    /\ ObjectAnswered
    /\ Handled("handle_payment_approved")
    /\ extract_customer_email(DataOf(req.body.doc)).exc = "none"
    /\ ~Truthy(extract_customer_email(DataOf(req.body.doc)).val)
    => /\ resp.status = 200
       /\ Val(resp.body, "error") = "Email do cliente nao encontrado"
       /\ Val(resp.body, "success") = "ABSENT"
       /\ ~Handled("create_account_with_identification_strategy")

(***************************************************************************)
(* Claims about the Firebase service.                                      *)
(***************************************************************************)
\* the app is registered and db is set
AppAndDb(s) == s.apps /\ s.db = "client"

\* C30: FirebaseService is a process-wide singleton: every construction
\* yields the one instance and creates no object, a construction after a
\* successful initialize() leaves db as it is, is_initialized() is true only
\* if the app is registered and db is set, and each of the five operations,
\* called while the service is not initialized, returns None or False and
\* leaves the directory as it is.
C30_SingletonGuardsDirectory ==
    [][LET call == fb'.last IN
       /\ call.op = "FirebaseService"
             => /\ call.obj = fb.s.instance
                /\ fb'.s.objects = fb.s.objects
                /\ fb'.s.db = fb.s.db
       /\ call.op = "is_initialized" /\ call.ret = "True" => AppAndDb(fb.s)
       /\ call.op \in FirebaseOperations /\ ~AppAndDb(fb.s)
             => /\ call.ret \in {"None", "False"}
                /\ directory' = directory]_vars

\* FirebaseService() was evaluated after a successful initialize(), the
\* service is still initialized, and the directory holds a document written
\* through it
C30_Witness ==
    /\ fb.last.op = "FirebaseService"
    /\ fb.last.obj = 1
    /\ fb.s.objects = 1
    /\ fb.s.apps
    /\ fb.s.db = "client"
    /\ directory.identities # {}

====
